---------------------------- MODULE Spec2Model ----------------------------
(***************************************************************************)
(* Ledger and budget engine of the personal finance manager                *)
(* (src/project.py): the users, transactions and budgets tables of the     *)
(* SQLite store, the TransactionManager, BudgetManager and ReportManager   *)
(* operations over them, and the date strings they validate and compare;   *)
(* the connection to the store (conn) and the backup files that            *)
(* DataPersistence copies the store file to and restores it from.          *)
(*                                                                         *)
(* Text is modelled as the sequence of its character codes, because the    *)
(* store compares the date column as text (SQLite BINARY collation: code   *)
(* by code, a proper prefix first) while the validation parses it.         *)
(* Amounts are whole numbers of currency units, in place of the floats the *)
(* menus pass (float(input)).  The operations return their values in       *)
(* `last`: the operation, its arguments and what it returned or printed.   *)
(***************************************************************************)
EXTENDS Integers, Sequences, FiniteSets, TLC

VARIABLES users, transactions, nextId, budgets, last, conn, backups

vars == <<users, transactions, nextId, budgets, last, conn, backups>>

-----------------------------------------------------------------------------
(* Character codes and text *)

Ord(ch) ==
  CASE ch = "-" -> 45
    [] ch = " " -> 32
    [] ch = "0" -> 48

DigitChar(n) == Ord("0") + n

IsDigit(c) == c \in DigitChar(0)..DigitChar(9)

DigitVal(c) == c - Ord("0")

InRange(c, lo, hi) == IsDigit(c) /\ DigitVal(c) \in lo..hi

\* str(n) for n >= 0: the decimal digits, no padding
RECURSIVE Digits(_)
Digits(n) ==
  IF n < 10 THEN <<DigitChar(n)>>
  ELSE Append(Digits(n \div 10), DigitChar(n % 10))

\* format(n, "02d"): at least two digits, padded with zeros on the left
Pad2(n) == IF n < 10 THEN <<DigitChar(0)>> \o Digits(n) ELSE Digits(n)

\* strftime("%Y") of the C library: the year's digits, not padded
FormatYear(y) == Digits(y)

\* a < b, a = b, a > b as -1, 0, 1 by memcmp over the common prefix, then length
RECURSIVE StrCmpFrom(_, _, _)
StrCmpFrom(a, b, i) ==
  IF i > Len(a) /\ i > Len(b) THEN 0
  ELSE IF i > Len(a) THEN -1
  ELSE IF i > Len(b) THEN 1
  ELSE IF a[i] < b[i] THEN -1
  ELSE IF a[i] > b[i] THEN 1
  ELSE StrCmpFrom(a, b, i + 1)

StrCmp(a, b) == StrCmpFrom(a, b, 1)

StrLeq(a, b) == StrCmp(a, b) <= 0

StrGeq(a, b) == StrCmp(a, b) >= 0

-----------------------------------------------------------------------------
(* Calendar of datetime.date *)

IsLeap(y) == (y % 4 = 0) /\ ((y % 100 # 0) \/ (y % 400 = 0))

\* mutant: the leap year is forgotten
DaysInMonth_no_leap(y, m) ==
  IF m = 2 THEN 28
  ELSE IF m \in {4, 6, 9, 11} THEN 30
  ELSE 31

DaysInMonth(y, m) ==
  IF m = 2 THEN (IF IsLeap(y) THEN 29 ELSE 28)
  ELSE IF m \in {4, 6, 9, 11} THEN 30
  ELSE 31

\* datetime.date(y, m, d) does not raise ValueError
DateOk(y, m, d) ==
  /\ y \in 1..9999
  /\ m \in 1..12
  /\ d \in 1..DaysInMonth(y, m)

\* date(y, m, d) - timedelta(days=1)
DayBefore(y, m, d) ==
  IF d > 1 THEN [year |-> y, month |-> m, day |-> d - 1]
  ELSE IF m > 1 THEN [year |-> y, month |-> m - 1, day |-> DaysInMonth(y, m - 1)]
  ELSE [year |-> y - 1, month |-> 12, day |-> 31]

-----------------------------------------------------------------------------
(* datetime.strptime(date_str, "%Y-%m-%d") *)

\* %m : 1[0-2] | 0[1-9] | [1-9]
MonthTokenOk(t) ==
  \/ Len(t) = 2 /\ DigitVal(t[1]) = 1 /\ InRange(t[2], 0, 2)
  \/ Len(t) = 2 /\ DigitVal(t[1]) = 0 /\ InRange(t[2], 1, 9)
  \/ Len(t) = 1 /\ InRange(t[1], 1, 9)

\* %d : 3[0-1] | [1-2]\d | 0[1-9] | [1-9] | " "[1-9]
DayTokenOk(t) ==
  \/ Len(t) = 2 /\ DigitVal(t[1]) = 3 /\ InRange(t[2], 0, 1)
  \/ Len(t) = 2 /\ InRange(t[1], 1, 2) /\ IsDigit(t[2])
  \/ Len(t) = 2 /\ DigitVal(t[1]) = 0 /\ InRange(t[2], 1, 9)
  \/ Len(t) = 1 /\ InRange(t[1], 1, 9)
  \/ Len(t) = 2 /\ t[1] = Ord(" ") /\ InRange(t[2], 1, 9)

RECURSIVE TokenVal(_)
TokenVal(t) ==
  IF t = <<>> THEN 0
  ELSE IF t[Len(t)] = Ord(" ") THEN 0
  ELSE 10 * TokenVal(SubSeq(t, 1, Len(t) - 1)) + DigitVal(t[Len(t)])

\* position of the dash that ends the month token, 0 when there is none
MonthEnd(s) ==
  IF Len(s) >= 7 /\ s[7] = Ord("-") THEN 7
  ELSE IF Len(s) >= 8 /\ s[8] = Ord("-") THEN 8
  ELSE 0

\* the regular expression of the format matches the whole of s
FormatMatches(s) ==
  /\ Len(s) >= 8
  /\ \A i \in 1..4 : IsDigit(s[i])
  /\ s[5] = Ord("-")
  /\ MonthEnd(s) # 0
  /\ MonthTokenOk(SubSeq(s, 6, MonthEnd(s) - 1))
  /\ DayTokenOk(SubSeq(s, MonthEnd(s) + 1, Len(s)))

YearOf(s) == TokenVal(SubSeq(s, 1, 4))

MonthOf(s) == TokenVal(SubSeq(s, 6, MonthEnd(s) - 1))

DayOf(s) == TokenVal(SubSeq(s, MonthEnd(s) + 1, Len(s)))

\* strptime returns a datetime (no ValueError)
StrptimeOk(s) ==
  /\ FormatMatches(s)
  /\ DateOk(YearOf(s), MonthOf(s), DayOf(s))

\* mutant: the text only has to match the format, not to name a calendar day
validate_date_format_only(date_str) == FormatMatches(date_str)

validate_date(date_str) == StrptimeOk(date_str)

-----------------------------------------------------------------------------
(* TransactionManager.__init__ : the fixed taxonomy *)

transaction_types == {"income", "expense"}

categories ==
  [income  |-> {"Salary", "Freelance", "Investments", "Gift", "Other Income"},
   expense |-> {"Food", "Rent", "Utilities", "Transport", "Entertainment",
                "Shopping", "Health", "Education", "Other Expense"}]

-----------------------------------------------------------------------------
(* Store: the three tables after DBManager._create_tables *)

\* users.id is AUTOINCREMENT and no row is ever deleted: the id is the position
UserIds == 1..Len(users)

\* hashlib.sha256(password).hexdigest(), an opaque digest of the password
hash_password(password) == <<"sha256", password>>

Init ==
  /\ users = <<>>
  /\ transactions = {}
  /\ nextId = 1
  /\ budgets = {}
  /\ last = [op |-> "init"]
  /\ conn = "open"
  /\ backups = {}

\* _execute_query: cursor.execute raises sqlite3.ProgrammingError on a closed
\* connection, which is caught, and the query reports False
ExecuteOk == conn = "open"

\* _fetch_one, _fetch_all: after the failed query, cursor.fetchone() and
\* cursor.fetchall() raise sqlite3.ProgrammingError outside any try
FetchRaises == conn = "closed"

\* mutant: the owner is not part of the WHERE clause
OwnedRows_any_owner(user_id, transaction_id) ==
  {t \in transactions : t.id = transaction_id}

\* SELECT ... FROM transactions WHERE id = ? AND user_id = ?
\* DELETE FROM transactions WHERE id = ? AND user_id = ?
OwnedRows(user_id, transaction_id) ==
  {t \in transactions : t.id = transaction_id /\ t.user_id = user_id}

-----------------------------------------------------------------------------
(* UserManager *)

register_user(username, password) ==
  LET ok == /\ ExecuteOk
            /\ \A i \in 1..Len(users) : users[i].username # username
  IN /\ users' = IF ok
                 THEN Append(users, [username |-> username,
                                     password_hash |-> hash_password(password)])
                 ELSE users
     /\ last' = [op |-> "register", username |-> username, ret |-> ok]
     /\ UNCHANGED <<transactions, nextId, budgets, conn, backups>>

-----------------------------------------------------------------------------
(* TransactionManager *)

\* mutant: the amount check lets zero and negative amounts through
AddValid_any_amount(trans_type, category, amount, date_str) ==
  /\ trans_type \in transaction_types
  /\ category \in categories[trans_type]
  /\ validate_date(date_str)

\* the four checks of add_transaction, in the order of the code
AddValid(trans_type, category, amount, date_str) ==
  /\ trans_type \in transaction_types
  /\ category \in categories[trans_type]
  /\ amount > 0
  /\ validate_date(date_str)

add_transaction(user_id, trans_type, category, amount, date_str, description) ==
  LET ok == AddValid(trans_type, category, amount, date_str) /\ ExecuteOk
      row == [id |-> nextId, user_id |-> user_id, type |-> trans_type,
              category |-> category, amount |-> amount, date |-> date_str,
              description |-> description]
  IN /\ transactions' = IF ok THEN transactions \cup {row} ELSE transactions
     /\ nextId' = IF ok THEN nextId + 1 ELSE nextId
     /\ last' = [op |-> "add", user_id |-> user_id, type |-> trans_type,
                 category |-> category, amount |-> amount, date |-> date_str,
                 description |-> description, ret |-> ok]
     /\ UNCHANGED <<users, budgets, conn, backups>>

\* mutant: the date is not validated
UpdateValid_any_date(stored_type, trans_type, category, amount, date_str) ==
  /\ stored_type = trans_type
  /\ category \in categories[trans_type]
  /\ amount > 0

\* mutant: the stored type is not compared with the given one
UpdateValid_any_type(stored_type, trans_type, category, amount, date_str) ==
  /\ trans_type \in transaction_types
  /\ category \in categories[trans_type]
  /\ amount > 0
  /\ validate_date(date_str)

\* the checks of update_transaction after the ownership lookup
UpdateValid(stored_type, trans_type, category, amount, date_str) ==
  /\ stored_type = trans_type
  /\ category \in categories[trans_type]
  /\ amount > 0
  /\ validate_date(date_str)

update_transaction(user_id, transaction_id, trans_type, category, amount, date_str, description) ==
  LET found == OwnedRows(user_id, transaction_id)
      ok == /\ found # {}
            /\ \A t \in found :
                 UpdateValid(t.type, trans_type, category, amount, date_str)
      upd(t) == [t EXCEPT !.category = category, !.amount = amount,
                          !.date = date_str, !.description = description]
      call == [op |-> "update", user_id |-> user_id, id |-> transaction_id,
               type |-> trans_type, category |-> category, amount |-> amount,
               date |-> date_str, description |-> description]
  IN /\ transactions' = IF ok /\ ~FetchRaises
                        THEN (transactions \ found) \cup {upd(t) : t \in found}
                        ELSE transactions
     /\ last' = IF FetchRaises
                THEN call @@ [raised |-> TRUE]
                ELSE call @@ [raised |-> FALSE, ret |-> ok]
     /\ UNCHANGED <<users, nextId, budgets, conn, backups>>

delete_transaction(user_id, transaction_id) ==
  LET found == OwnedRows(user_id, transaction_id)
  IN /\ transactions' = IF ExecuteOk THEN transactions \ found ELSE transactions
     /\ last' = [op |-> "delete", user_id |-> user_id, id |-> transaction_id,
                 ret |-> (ExecuteOk /\ found # {})]
     /\ UNCHANGED <<users, nextId, budgets, conn, backups>>

\* mutant: the WHERE clause does not name the user
SelectTransactions_any_owner(user_id, trans_type, start_date, end_date) ==
  {t \in transactions :
     /\ (trans_type \in transaction_types => t.type = trans_type)
     /\ (start_date # <<>> /\ validate_date(start_date)
           => StrGeq(t.date, start_date))
     /\ (end_date # <<>> /\ validate_date(end_date)
           => StrLeq(t.date, end_date))}

\* WHERE user_id = ? [AND type = ?] [AND date >= ?] [AND date <= ?]
\* None and the empty string are both false in "if start_date and ...":
\* an absent date filter is the empty text, an absent type filter is "None"
SelectTransactions(user_id, trans_type, start_date, end_date) ==
  {t \in transactions :
     /\ t.user_id = user_id
     /\ (trans_type \in transaction_types => t.type = trans_type)
     /\ (start_date # <<>> /\ validate_date(start_date)
           => StrGeq(t.date, start_date))
     /\ (end_date # <<>> /\ validate_date(end_date)
           => StrLeq(t.date, end_date))}

\* ORDER BY date DESC: every listing of S with no earlier date text before a
\* later one; the order among equal date texts is the store's choice
RECURSIVE Orderings(_)
Orderings(S) ==
  IF S = {} THEN {<<>>}
  ELSE UNION {{<<t>> \o rest : rest \in Orderings(S \ {t})} :
              t \in {x \in S : \A y \in S : StrGeq(x.date, y.date)}}

\* the tuple (id, type, category, amount, date, description) of the SELECT
Projected(t) == <<t.id, t.type, t.category, t.amount, t.date, t.description>>

Project(rows) == [i \in 1..Len(rows) |-> Projected(rows[i])]

get_transactions(user_id, trans_type, start_date, end_date) ==
  \E rows \in IF FetchRaises THEN {<<>>}
              ELSE Orderings(SelectTransactions(user_id, trans_type,
                                                start_date, end_date)) :
     /\ last' = IF FetchRaises
                THEN [op |-> "list", user_id |-> user_id, type |-> trans_type,
                      start_date |-> start_date, end_date |-> end_date,
                      raised |-> TRUE]
                ELSE [op |-> "list", user_id |-> user_id, type |-> trans_type,
                      start_date |-> start_date, end_date |-> end_date,
                      raised |-> FALSE, ret |-> Project(rows)]
     /\ UNCHANGED <<users, transactions, nextId, budgets, conn, backups>>

-----------------------------------------------------------------------------
(* BudgetManager *)

\* mutant: the month range starts at 0
BudgetValid_month_zero(category, amount, month, year) ==
  /\ category \in categories["expense"]
  /\ amount >= 0
  /\ month >= 0 /\ month <= 12
  /\ year >= 1900 /\ year <= 2100

\* the three checks of set_budget
BudgetValid(category, amount, month, year) ==
  /\ category \in categories["expense"]
  /\ amount >= 0
  /\ month >= 1 /\ month <= 12
  /\ year >= 1900 /\ year <= 2100

\* the rows with the key UNIQUE(user_id, category, month, year)
BudgetRows(user_id, category, month, year) ==
  {b \in budgets : /\ b.user_id = user_id
                   /\ b.category = category
                   /\ b.month = month
                   /\ b.year = year}

\* mutant: a plain INSERT into a table without the UNIQUE constraint
Upsert_insert_only(row) == budgets \cup {row}

\* INSERT OR REPLACE: the rows in conflict on the UNIQUE key are deleted, then
\* the new row is inserted
Upsert(row) ==
  (budgets \ BudgetRows(row.user_id, row.category, row.month, row.year))
    \cup {row}

\* INSERT OR REPLACE ... VALUES ((SELECT id FROM users WHERE id = ?), ...):
\* the sub-select is NULL for an id that is no user and user_id is NOT NULL,
\* so the statement fails. last.replaced keeps the amounts of the rows the
\* statement replaced.
set_budget(user_id, category, amount, month, year) ==
  LET ok == /\ BudgetValid(category, amount, month, year)
            /\ ExecuteOk
            /\ user_id \in UserIds
      row == [user_id |-> user_id, category |-> category, amount |-> amount,
              month |-> month, year |-> year]
  IN /\ budgets' = IF ok THEN Upsert(row) ELSE budgets
     /\ last' = [op |-> "set_budget", user_id |-> user_id,
                 category |-> category, amount |-> amount, month |-> month,
                 year |-> year, ret |-> ok,
                 replaced |-> IF ok
                              THEN {b.amount : b \in BudgetRows(user_id,
                                                     category, month, year)}
                              ELSE {}]
     /\ UNCHANGED <<users, transactions, nextId, conn, backups>>

BudgetAmount(user_id, category, month, year) ==
  LET rows == BudgetRows(user_id, category, month, year)
  IN IF rows = {} THEN 0 ELSE (CHOOSE b \in rows : TRUE).amount

get_budget(user_id, category, month, year) ==
  /\ last' = IF FetchRaises
             THEN [op |-> "get_budget", user_id |-> user_id,
                   category |-> category, month |-> month, year |-> year,
                   raised |-> TRUE]
             ELSE [op |-> "get_budget", user_id |-> user_id,
                   category |-> category, month |-> month, year |-> year,
                   raised |-> FALSE,
                   ret |-> BudgetAmount(user_id, category, month, year)]
  /\ UNCHANGED <<users, transactions, nextId, budgets, conn, backups>>

\* f"{year}-{month:02d}-01"
StartDate(month, year) ==
  Digits(year) \o <<Ord("-")>> \o Pad2(month) \o <<Ord("-")>> \o Pad2(1)

\* datetime.date(year, month + 1, 1) raises ValueError
EndDateRaises(month, year) == month # 12 /\ ~DateOk(year, month + 1, 1)

\* f"{year}-12-31" for December, else the day before the first of the next
\* month, formatted by strftime("%Y-%m-%d")
EndDate(month, year) ==
  IF month = 12
  THEN Digits(year) \o <<Ord("-")>> \o Pad2(12) \o <<Ord("-")>> \o Pad2(31)
  ELSE LET e == DayBefore(year, month + 1, 1)
       IN FormatYear(e.year) \o <<Ord("-")>> \o Pad2(e.month) \o <<Ord("-")>>
            \o Pad2(e.day)

RECURSIVE SumAmounts(_)
SumAmounts(S) ==
  IF S = {} THEN 0
  ELSE LET t == CHOOSE x \in S : TRUE
       IN t.amount + SumAmounts(S \ {t})

\* SELECT SUM(amount) ... WHERE user_id = ? AND type = 'expense'
\*   AND category = ? AND date BETWEEN ? AND ?   (0.0 when there is no row)
ExpensesInMonth(user_id, category, month, year) ==
  SumAmounts({t \in transactions :
                /\ t.user_id = user_id
                /\ t.type = "expense"
                /\ t.category = category
                /\ StrGeq(t.date, StartDate(month, year))
                /\ StrLeq(t.date, EndDate(month, year))})

get_expenses_for_category_in_month(user_id, category, month, year) ==
  /\ last' = [op |-> "spent", user_id |-> user_id, category |-> category,
              month |-> month, year |-> year,
              raised |-> (EndDateRaises(month, year) \/ FetchRaises),
              ret |-> IF EndDateRaises(month, year) \/ FetchRaises THEN 0
                      ELSE ExpensesInMonth(user_id, category, month, year)]
  /\ UNCHANGED <<users, transactions, nextId, budgets, conn, backups>>

\* mutant: a spend equal to the budget counts as exceeded
IsExceeded_or_equal(spent_amount, budget_amount) == spent_amount >= budget_amount

\* the comparison of check_budget_exceeded
IsExceeded(spent_amount, budget_amount) == spent_amount > budget_amount

\* the (category, spent, budget, difference) tuples of check_budget_exceeded;
\* their order in the returned list is the order of the budgets query.
\* A stored budget has month in 1..12 and year in 1900..2100, so the
\* end-of-month date never raises inside the loop.
ExceededBudgets(user_id, month, year) ==
  LET rows == {b \in budgets : /\ b.user_id = user_id
                               /\ b.month = month
                               /\ b.year = year}
      spent(b) == ExpensesInMonth(user_id, b.category, month, year)
  IN {<<b.category, spent(b), b.amount, spent(b) - b.amount>> :
        b \in {x \in rows : IsExceeded(spent(x), x.amount)}}

check_budget_exceeded(user_id, month, year) ==
  /\ last' = IF FetchRaises
             THEN [op |-> "exceeded", user_id |-> user_id, month |-> month,
                   year |-> year, raised |-> TRUE]
             ELSE [op |-> "exceeded", user_id |-> user_id, month |-> month,
                   year |-> year, raised |-> FALSE,
                   ret |-> ExceededBudgets(user_id, month, year)]
  /\ UNCHANGED <<users, transactions, nextId, budgets, conn, backups>>

-----------------------------------------------------------------------------
(* ReportManager *)

\* the rows get_transactions returns to the reports (type None, both dates)
ReportRows(user_id, start_date, end_date) ==
  SelectTransactions(user_id, "None", start_date, end_date)

OfType(rows, ttype) == {t \in rows : t.type = ttype}

\* the dictionary built by by_category[category] = by_category.get(...) + amount
ByCategory(rows) ==
  [c \in {t.category : t \in rows} |->
     SumAmounts({t \in rows : t.category = c})]

\* datetime.date(year, month, 1) of the report's heading raises ValueError
MonthlyRaises(month, year) == ~DateOk(year, month, 1)

\* the values generate_monthly_report prints
MonthlyReport(user_id, month, year) ==
  LET rows == ReportRows(user_id, StartDate(month, year), EndDate(month, year))
      total_income == SumAmounts(OfType(rows, "income"))
      total_expense == SumAmounts(OfType(rows, "expense"))
  IN [total_income |-> total_income,
      total_expense |-> total_expense,
      savings |-> total_income - total_expense,
      income_by_category |-> ByCategory(OfType(rows, "income")),
      expense_by_category |-> ByCategory(OfType(rows, "expense")),
      exceeded_budgets |-> ExceededBudgets(user_id, month, year)]

generate_monthly_report(user_id, month, year) ==
  /\ last' = IF MonthlyRaises(month, year) \/ FetchRaises
             THEN [op |-> "monthly", user_id |-> user_id, month |-> month,
                   year |-> year, raised |-> TRUE]
             ELSE [op |-> "monthly", user_id |-> user_id, month |-> month,
                   year |-> year, raised |-> FALSE,
                   ret |-> MonthlyReport(user_id, month, year)]
  /\ UNCHANGED <<users, transactions, nextId, budgets, conn, backups>>

\* f"{year}-01-01" and f"{year}-12-31"
YearStart(year) == Digits(year) \o <<Ord("-")>> \o Pad2(1) \o <<Ord("-")>> \o Pad2(1)

YearEnd(year) == Digits(year) \o <<Ord("-")>> \o Pad2(12) \o <<Ord("-")>> \o Pad2(31)

\* {i: 0.0 for i in range(1, 13)}, then += amount at strptime(date).month
ByMonth(rows) ==
  [m \in 1..12 |-> SumAmounts({t \in rows : MonthOf(t.date) = m})]

\* datetime.date(year, month, 1) of the breakdown table raises ValueError
YearlyRaises(year) == ~DateOk(year, 1, 1)

\* the values generate_yearly_report prints
YearlyReport(user_id, year) ==
  LET rows == ReportRows(user_id, YearStart(year), YearEnd(year))
      total_income_year == SumAmounts(OfType(rows, "income"))
      total_expense_year == SumAmounts(OfType(rows, "expense"))
  IN [income_by_month |-> ByMonth(OfType(rows, "income")),
      expense_by_month |-> ByMonth(OfType(rows, "expense")),
      total_income_year |-> total_income_year,
      total_expense_year |-> total_expense_year,
      annual_savings |-> total_income_year - total_expense_year]

generate_yearly_report(user_id, year) ==
  /\ last' = IF YearlyRaises(year) \/ FetchRaises
             THEN [op |-> "yearly", user_id |-> user_id, year |-> year,
                   raised |-> TRUE]
             ELSE [op |-> "yearly", user_id |-> user_id, year |-> year,
                   raised |-> FALSE, ret |-> YearlyReport(user_id, year)]
  /\ UNCHANGED <<users, transactions, nextId, budgets, conn, backups>>

-----------------------------------------------------------------------------
(* Bounds and inputs *)

\* at most MaxTx transaction ids are ever assigned
MaxTx == 2

Usernames == {"alice", "bob"}

Passwords == {"secret"}

\* date.isoformat(): YYYY-MM-DD, zero padded
Iso(y, m, d) ==
  (IF y < 10 THEN <<DigitChar(0), DigitChar(0), DigitChar(0)>>
   ELSE IF y < 100 THEN <<DigitChar(0), DigitChar(0)>>
   ELSE IF y < 1000 THEN <<DigitChar(0)>>
   ELSE <<>>)
  \o Digits(y) \o <<Ord("-")>> \o Pad2(m) \o <<Ord("-")>> \o Pad2(d)

\* the same date written without leading zeros
Unpadded(y, m, d) ==
  Digits(y) \o <<Ord("-")>> \o Digits(m) \o <<Ord("-")>> \o Digits(d)

\* a leap day, the first of the same month written without leading zeros, and
\* the leap day written in a year that has none
LeapDay == Iso(2024, 2, 29)

FirstDay == Unpadded(2024, 2, 1)

NoLeapDay == Iso(2023, 2, 29)

TxInput(k, c, a, d, x) ==
  [type |-> k, category |-> c, amount |-> a, date |-> d, description |-> x]

\* three inputs every check of add accepts, and for each check of add inputs
\* that fail it alone
LedgerInputs ==
  {TxInput("income", "Salary", 5, LeapDay, "pay"),
   TxInput("expense", "Food", 7, LeapDay, "lunch"),
   TxInput("expense", "Rent", 5, FirstDay, ""),
   TxInput("transfer", "Salary", 5, LeapDay, "pay"),
   TxInput("expense", "Salary", 7, LeapDay, "lunch"),
   TxInput("expense", "Bogus", 7, LeapDay, "lunch"),
   TxInput("expense", "Food", 0, LeapDay, "lunch"),
   TxInput("income", "Salary", -1, LeapDay, "pay"),
   TxInput("expense", "Food", 7, NoLeapDay, "lunch")}

\* two inputs update accepts for an expense, one it accepts for an income,
\* and inputs that fail one check of update alone for an expense
UpdateInputs ==
  {TxInput("expense", "Rent", 5, FirstDay, ""),
   TxInput("expense", "Food", 7, LeapDay, "lunch"),
   TxInput("income", "Salary", 5, LeapDay, "pay"),
   TxInput("expense", "Salary", 7, LeapDay, "lunch"),
   TxInput("expense", "Food", 0, LeapDay, "lunch"),
   TxInput("expense", "Food", 7, NoLeapDay, "lunch")}

\* the ids assigned so far and the next one, which no row has
TxIds == 1..nextId

-----------------------------------------------------------------------------
(* Ledger: register, add, update, delete, list.  The menus call the        *)
(* managers with current_user_id, the id authenticate_user returned, so    *)
(* the caller is a row of users.                                           *)

Register == \E n \in Usernames, p \in Passwords : register_user(n, p)

Add ==
  /\ nextId <= MaxTx
  /\ \E u \in UserIds, i \in LedgerInputs :
       add_transaction(u, i.type, i.category, i.amount, i.date, i.description)

Update ==
  \E u \in UserIds, id \in TxIds, i \in UpdateInputs :
    update_transaction(u, id, i.type, i.category, i.amount, i.date,
                       i.description)

Delete == \E u \in UserIds, id \in TxIds : delete_transaction(u, id)

ListAll == \E u \in UserIds : get_transactions(u, "None", <<>>, <<>>)

Next == Register \/ Add \/ Update \/ Delete \/ ListAll

Spec == Init /\ [][Next]_vars

-----------------------------------------------------------------------------
(* What the claims call a valid calendar date: a text of three runs of     *)
(* digits joined by dashes, a four-digit year, a month 1..12 and a day     *)
(* that the month of that year has.                                        *)

DashPositions(s) == {i \in 1..Len(s) : s[i] = Ord("-")}

AllDigits(t) == t # <<>> /\ \A i \in 1..Len(t) : IsDigit(t[i])

RECURSIVE Number(_)
Number(t) ==
  IF t = <<>> THEN 0
  ELSE 10 * Number(SubSeq(t, 1, Len(t) - 1)) + (t[Len(t)] - Ord("0"))

LastDayOfMonth(y, m) ==
  CASE m \in {1, 3, 5, 7, 8, 10, 12} -> 31
    [] m \in {4, 6, 9, 11} -> 30
    [] m = 2 /\ (y % 400 = 0 \/ (y % 4 = 0 /\ y % 100 # 0)) -> 29
    [] OTHER -> 28

\* the year, month and day a date text denotes
CalendarOf(s) ==
  LET i == CHOOSE p \in DashPositions(s) : \A q \in DashPositions(s) : p <= q
      j == CHOOSE p \in DashPositions(s) : \A q \in DashPositions(s) : p >= q
  IN [year |-> Number(SubSeq(s, 1, i - 1)),
      month |-> Number(SubSeq(s, i + 1, j - 1)),
      day |-> Number(SubSeq(s, j + 1, Len(s)))]

IsCalendarDate(s) ==
  /\ Cardinality(DashPositions(s)) = 2
  /\ LET i == CHOOSE p \in DashPositions(s) : \A q \in DashPositions(s) : p <= q
         j == CHOOSE p \in DashPositions(s) : \A q \in DashPositions(s) : p >= q
         ys == SubSeq(s, 1, i - 1)
         ms == SubSeq(s, i + 1, j - 1)
         ds == SubSeq(s, j + 1, Len(s))
     IN /\ AllDigits(ys) /\ Len(ys) = 4
        /\ AllDigits(ms) /\ Len(ms) <= 2
        /\ AllDigits(ds) /\ Len(ds) <= 2
        /\ Number(ys) >= 1
        /\ Number(ms) \in 1..12
        /\ Number(ds) \in 1..LastDayOfMonth(Number(ys), Number(ms))

\* kind, category, amount and date as the claims require them of add
ValidForAdd(c) ==
  /\ c.type \in {"income", "expense"}
  /\ c.category \in categories[c.type]
  /\ c.amount > 0
  /\ IsCalendarDate(c.date)

\* the stored transaction of user u with this id, if any
StoredAs(u, id) == {t \in transactions : t.id = id /\ t.user_id = u}

-----------------------------------------------------------------------------
(* Claims on the ledger, checked under Spec *)

\* C1: add with a kind in {income, expense}, a category of that kind, an
\* amount > 0 and a valid calendar date succeeds, and every unfiltered listing
\* of that user's transactions then holds a row with exactly that kind,
\* category, amount, date and description.
C1_AddThenListed ==
  (last.op = "add" /\ ValidForAdd(last)) =>
     /\ last.ret = TRUE
     /\ \A rows \in Orderings(SelectTransactions(last.user_id, "None",
                                                 <<>>, <<>>)) :
          \E i \in 1..Len(Project(rows)) :
            /\ Project(rows)[i][2] = last.type
            /\ Project(rows)[i][3] = last.category
            /\ Project(rows)[i][4] = last.amount
            /\ Project(rows)[i][5] = last.date
            /\ Project(rows)[i][6] = last.description

C1_Witness ==
  /\ last.op = "add"
  /\ last.ret = TRUE
  /\ last.type = "income"
  /\ last.date = Iso(2024, 2, 29)
  /\ Cardinality(transactions) = 2

\* C2: an update whose kind differs from the stored kind fails and leaves
\* every stored transaction as it was, and no step changes the kind stored
\* under a transaction id.
C2_KindImmutable ==
  [][/\ (last'.op = "update" /\ \E t \in StoredAs(last'.user_id, last'.id) :
                                   t.type # last'.type)
          => (last'.ret = FALSE /\ transactions' = transactions)
     /\ \A t \in transactions : \A n \in transactions' :
          t.id = n.id => t.type = n.type]_vars

C2_Witness ==
  /\ last.op = "update"
  /\ last.ret = FALSE
  /\ last.type = "income"
  /\ last.category = "Salary"
  /\ last.amount > 0
  /\ IsCalendarDate(last.date)
  /\ \E t \in StoredAs(last.user_id, last.id) : t.type = "expense"

\* C3: a delete of an id that no transaction has, or that a transaction of
\* another user has, reports failure and leaves the stored transactions, and
\* so their number, unchanged.
C3_DeleteNotOwned ==
  [][(last'.op = "delete" /\ StoredAs(last'.user_id, last'.id) = {})
       => /\ last'.ret = FALSE
          /\ transactions' = transactions
          /\ Cardinality(transactions') = Cardinality(transactions)]_vars

C3_Witness ==
  /\ last.op = "delete"
  /\ last.ret = FALSE
  /\ \E t \in transactions : t.id = last.id /\ t.user_id # last.user_id

\* C9: an add whose kind is unknown, whose category is not of its kind, whose
\* amount is <= 0 or whose date is no valid calendar date fails, and the
\* stored transactions are unchanged.
C9_AddRejects ==
  [][(last'.op = "add" /\ ~ValidForAdd(last'))
       => (last'.ret = FALSE /\ transactions' = transactions
             /\ nextId' = nextId)]_vars

C9_Witness ==
  /\ last.op = "add"
  /\ last.ret = FALSE
  /\ last.amount = 0
  /\ last.type = "expense"
  /\ transactions # {}

-----------------------------------------------------------------------------
(* Budgets: register, set, get *)

\* the ids the users table can hold; an id beyond Len(users) is no user yet
CallerIds == 1..Cardinality(Usernames)

BudgetInput(c, a, m, y) == [category |-> c, amount |-> a, month |-> m, year |-> y]

\* inputs set_budget accepts, the four boundary values among them, and for
\* each check of set_budget inputs that fail it alone
BudgetInputs ==
  {BudgetInput("Food", 5, 1, 1900),
   BudgetInput("Food", 8, 1, 1900),
   BudgetInput("Food", 0, 12, 2100),
   BudgetInput("Rent", 5, 12, 2100),
   BudgetInput("Salary", 5, 1, 1900),
   BudgetInput("Bogus", 5, 1, 1900),
   BudgetInput("Food", -1, 1, 1900),
   BudgetInput("Food", 5, 0, 1900),
   BudgetInput("Food", 5, 13, 2100),
   BudgetInput("Food", 5, 1, 1899),
   BudgetInput("Food", 5, 12, 2101)}

BudgetKeys ==
  {BudgetInput("Food", 0, 1, 1900),
   BudgetInput("Food", 0, 12, 2100),
   BudgetInput("Rent", 0, 12, 2100),
   BudgetInput("Rent", 0, 1, 1900)}

SetBudget ==
  \E u \in CallerIds, i \in BudgetInputs :
    set_budget(u, i.category, i.amount, i.month, i.year)

GetBudget ==
  \E u \in CallerIds, k \in BudgetKeys :
    get_budget(u, k.category, k.month, k.year)

NextBudget == Register \/ SetBudget \/ GetBudget

SpecBudget == Init /\ [][NextBudget]_vars

-----------------------------------------------------------------------------
(* Claims on the budgets, checked under SpecBudget *)

SameKey(a, b) ==
  /\ a.user_id = b.user_id
  /\ a.category = b.category
  /\ a.month = b.month
  /\ a.year = b.year

\* C4: the store never holds two budget rows with the same (user, category,
\* month, year); after a successful set the key has exactly one row and it
\* carries the amount of that call, also when the call replaced another
\* amount; get returns the amount of the key's row and 0 when the key has none.
C4_OneRowPerKey ==
  /\ \A a \in budgets : \A b \in budgets : SameKey(a, b) => a = b
  /\ (last.op = "set_budget" /\ last.ret = TRUE) =>
       /\ Cardinality({b \in budgets : SameKey(b, last)}) = 1
       /\ \A b \in budgets : SameKey(b, last) => b.amount = last.amount
  /\ last.op = "get_budget" =>
       /\ \A b \in budgets : SameKey(b, last) => last.ret = b.amount
       /\ (\A b \in budgets : ~SameKey(b, last)) => last.ret = 0

C4_Witness ==
  /\ last.op = "set_budget"
  /\ last.ret = TRUE
  /\ last.replaced # {}
  /\ last.amount \notin last.replaced
  /\ Cardinality(budgets) > 1

\* the arguments of a set as the claims require them
ValidForBudget(c) ==
  /\ c.category \in categories.expense
  /\ c.amount >= 0
  /\ c.month \in 1..12
  /\ c.year \in 1900..2100

\* C10: a set with a category that is no expense category, a negative amount,
\* a month outside 1..12 or a year outside 1900..2100 fails and leaves the
\* budgets unchanged; a set by a registered user with valid arguments, amount
\* 0 and the boundary months and years included, succeeds; every stored
\* budget has valid fields.
C10_SetValidates ==
  [][/\ (last'.op = "set_budget" /\ ~ValidForBudget(last'))
          => (last'.ret = FALSE /\ budgets' = budgets)
     /\ (last'.op = "set_budget" /\ ValidForBudget(last')
           /\ last'.user_id \in 1..Len(users))
          => last'.ret = TRUE
     /\ \A b \in budgets' : ValidForBudget(b)]_vars

C10_Witness ==
  /\ last.op = "set_budget"
  /\ last.ret = FALSE
  /\ last.month = 13
  /\ \E b \in budgets : b.amount = 0 /\ b.month = 12 /\ b.year = 2100
  /\ \E b \in budgets : b.month = 1 /\ b.year = 1900

-----------------------------------------------------------------------------
(* Spending: add, spent in month; and against budgets: add, set, exceeded *)

\* the store once alice and bob have registered, before any transaction
InitRegistered ==
  /\ users = <<[username |-> "alice", password_hash |-> hash_password("secret")],
               [username |-> "bob", password_hash |-> hash_password("secret")]>>
  /\ transactions = {}
  /\ nextId = 1
  /\ budgets = {}
  /\ last = [op |-> "init"]
  /\ conn = "open"
  /\ backups = {}

\* expenses on the first and the last day of February 2024, one of them also
\* written without leading zeros, one on the last day of the year, one of
\* another category, and an income
SpendInputs ==
  {TxInput("expense", "Food", 3, Iso(2024, 2, 1), ""),
   TxInput("expense", "Food", 5, Iso(2024, 2, 29), ""),
   TxInput("expense", "Food", 5, Unpadded(2024, 2, 1), ""),
   TxInput("expense", "Food", 3, Iso(2024, 12, 31), ""),
   TxInput("expense", "Rent", 5, Iso(2024, 2, 29), ""),
   TxInput("income", "Salary", 5, Iso(2024, 2, 29), "")}

\* two Food expenses that together exceed the Food budget, one of them also
\* written without leading zeros, and a Rent expense equal to the Rent budget
OverInputs ==
  {TxInput("expense", "Food", 3, Iso(2024, 2, 1), ""),
   TxInput("expense", "Food", 5, Iso(2024, 2, 29), ""),
   TxInput("expense", "Food", 5, Unpadded(2024, 2, 1), ""),
   TxInput("expense", "Rent", 5, Iso(2024, 2, 29), "")}

SpendBudgets ==
  {BudgetInput("Food", 5, 2, 2024),
   BudgetInput("Rent", 5, 2, 2024)}

SpendCategories == {"Food", "Rent"}

SpendMonths == {2, 12}

SpendYears == {2024}

AddSpend ==
  /\ nextId <= MaxTx
  /\ \E u \in UserIds, i \in SpendInputs :
       add_transaction(u, i.type, i.category, i.amount, i.date, i.description)

SetSpendBudget ==
  \E u \in UserIds, i \in SpendBudgets :
    set_budget(u, i.category, i.amount, i.month, i.year)

Spent ==
  \E u \in UserIds, c \in SpendCategories, m \in SpendMonths, y \in SpendYears :
    get_expenses_for_category_in_month(u, c, m, y)

Exceeded ==
  \E u \in UserIds, m \in SpendMonths, y \in SpendYears :
    check_budget_exceeded(u, m, y)

AddOver ==
  /\ nextId <= MaxTx
  /\ \E u \in UserIds, i \in OverInputs :
       add_transaction(u, i.type, i.category, i.amount, i.date, i.description)

NextSpend == AddSpend \/ Spent

SpecSpend == InitRegistered /\ [][NextSpend]_vars

NextExceeded == AddOver \/ SetSpendBudget \/ Exceeded

SpecExceeded == InitRegistered /\ [][NextExceeded]_vars

-----------------------------------------------------------------------------
(* Claims on the spending, checked under SpecSpend and SpecExceeded *)

\* the calendar date of t lies between the first and the last day of the month
DatedIn(t, month, year) ==
  /\ CalendarOf(t.date).year = year
  /\ CalendarOf(t.date).month = month
  /\ CalendarOf(t.date).day \in 1..LastDayOfMonth(year, month)

RECURSIVE Total(_)
Total(S) ==
  IF S = {} THEN 0
  ELSE LET t == CHOOSE x \in S : TRUE IN t.amount + Total(S \ {t})

\* C5: spent in month is the sum of the amounts of the stored transactions of
\* that user that are expenses of that category and whose calendar date lies
\* in that month, and 0 when there is none.
C5_SpentIsCalendarSum ==
  last.op = "spent" =>
    /\ last.raised = FALSE
    /\ last.ret = Total({t \in transactions :
                           /\ t.user_id = last.user_id
                           /\ t.type = "expense"
                           /\ t.category = last.category
                           /\ DatedIn(t, last.month, last.year)})

\* C6: exceeded returns an entry for a category exactly when a budget is
\* stored for (user, category, month, year) and the spend in that month is
\* strictly greater than the budgeted amount, and each entry is (category,
\* spent, budgeted, spent - budgeted).
C6_ExceededIffOver ==
  last.op = "exceeded" =>
    LET spent(c) == ExpensesInMonth(last.user_id, c, last.month, last.year)
        stored(c) == {b \in budgets : /\ b.user_id = last.user_id
                                      /\ b.category = c
                                      /\ b.month = last.month
                                      /\ b.year = last.year}
    IN /\ \A c \in categories.expense \cup categories.income :
            (\E e \in last.ret : e[1] = c)
              <=> (\E b \in stored(c) : spent(c) > b.amount)
       /\ \A e \in last.ret : \E b \in stored(e[1]) :
            e = <<e[1], spent(e[1]), b.amount, spent(e[1]) - b.amount>>
       /\ ((\A b \in budgets : ~(/\ b.user_id = last.user_id
                                 /\ b.month = last.month
                                 /\ b.year = last.year))
             => last.ret = {})

C6_Witness ==
  /\ last.op = "exceeded"
  /\ last.ret = {<<"Food", 8, 5, 3>>}
  /\ \E b \in budgets : /\ b.user_id = last.user_id
                        /\ b.category = "Rent"
                        /\ b.month = last.month
                        /\ b.year = last.year

-----------------------------------------------------------------------------
(* Reports: add, set, monthly, yearly *)

\* an income and an expense in January 2024, an expense on the first of
\* February written without leading zeros, an income on the last day of the
\* year and an expense on the last day of the year before
ReportInputs ==
  {TxInput("income", "Salary", 5, Iso(2024, 1, 15), ""),
   TxInput("expense", "Food", 3, Iso(2024, 1, 31), ""),
   TxInput("expense", "Food", 5, Unpadded(2024, 2, 1), ""),
   TxInput("income", "Gift", 7, Iso(2024, 12, 31), ""),
   TxInput("expense", "Rent", 3, Iso(2023, 12, 31), "")}

ReportBudgets == {BudgetInput("Food", 2, 1, 2024)}

\* 13 is no month: the heading of the monthly report raises
ReportMonths == {1, 2, 12, 13}

ReportYears == {2023, 2024}

AddReport ==
  /\ nextId <= MaxTx
  /\ \E u \in UserIds, i \in ReportInputs :
       add_transaction(u, i.type, i.category, i.amount, i.date, i.description)

SetReportBudget ==
  \E u \in UserIds, i \in ReportBudgets :
    set_budget(u, i.category, i.amount, i.month, i.year)

Monthly ==
  \E u \in UserIds, m \in ReportMonths, y \in ReportYears :
    generate_monthly_report(u, m, y)

Yearly == \E u \in UserIds, y \in ReportYears : generate_yearly_report(u, y)

NextReport == AddReport \/ SetReportBudget \/ Monthly \/ Yearly

SpecReport == InitRegistered /\ [][NextReport]_vars

-----------------------------------------------------------------------------
(* Claims on the reports, checked under SpecReport *)

\* the transactions of user u of one kind whose calendar date is in the month
InMonth(u, kind, month, year) ==
  {t \in transactions : /\ t.user_id = u
                        /\ t.type = kind
                        /\ DatedIn(t, month, year)}

\* by is the map from exactly the categories of S to the sums of their amounts
IsSubtotals(by, S) ==
  /\ DOMAIN by = {t.category : t \in S}
  /\ \A c \in DOMAIN by : by[c] = Total({t \in S : t.category = c})

\* C7: the monthly report of a month 1..12 has as total income and total
\* expense the sums of the user's income and expense amounts dated in that
\* month, as net their difference, and as subtotal maps of each kind exactly
\* the categories with a transaction of that kind in the month, each with the
\* sum of its amounts.
C7_MonthlyTotals ==
  (last.op = "monthly" /\ last.month \in 1..12) =>
    /\ last.raised = FALSE
    /\ LET inc == InMonth(last.user_id, "income", last.month, last.year)
           exp == InMonth(last.user_id, "expense", last.month, last.year)
       IN /\ last.ret.total_income = Total(inc)
          /\ last.ret.total_expense = Total(exp)
          /\ last.ret.savings = Total(inc) - Total(exp)
          /\ IsSubtotals(last.ret.income_by_category, inc)
          /\ IsSubtotals(last.ret.expense_by_category, exp)

RECURSIVE SumOfBuckets(_, _)
SumOfBuckets(by, m) == IF m = 0 THEN 0 ELSE by[m] + SumOfBuckets(by, m - 1)

\* C8: the yearly report has income and expense buckets for exactly the months
\* 1..12, each the sum of the user's amounts of that kind dated in that month
\* of the year; the annual totals are the sums of the twelve buckets and the
\* net annual savings their difference.
C8_YearlyBuckets ==
  last.op = "yearly" =>
    /\ last.raised = FALSE
    /\ DOMAIN last.ret.income_by_month = 1..12
    /\ DOMAIN last.ret.expense_by_month = 1..12
    /\ \A m \in 1..12 :
         /\ last.ret.income_by_month[m]
              = Total(InMonth(last.user_id, "income", m, last.year))
         /\ last.ret.expense_by_month[m]
              = Total(InMonth(last.user_id, "expense", m, last.year))
    /\ last.ret.total_income_year = SumOfBuckets(last.ret.income_by_month, 12)
    /\ last.ret.total_expense_year = SumOfBuckets(last.ret.expense_by_month, 12)
    /\ last.ret.annual_savings
         = last.ret.total_income_year - last.ret.total_expense_year

-----------------------------------------------------------------------------
(* Listing with filters: add, list by kind and by date range *)

\* rows dated on the first day of February 2024 written without leading
\* zeros, on its last day, and on the last day of the January before
ListInputs ==
  {TxInput("expense", "Food", 5, Unpadded(2024, 2, 1), ""),
   TxInput("expense", "Rent", 3, Iso(2024, 2, 29), ""),
   TxInput("income", "Salary", 7, Iso(2024, 1, 31), "")}

\* no kind filter, each kind, and a kind the taxonomy does not have
KindFilters == {"None", "income", "expense", "transfer"}

\* no date filter, the first and the last day of February 2024, and a day
\* that February 2023 does not have
DateFilters == {<<>>, Iso(2024, 2, 1), Iso(2024, 2, 29), NoLeapDay}

AddList ==
  /\ nextId <= MaxTx
  /\ \E u \in UserIds, i \in ListInputs :
       add_transaction(u, i.type, i.category, i.amount, i.date, i.description)

ListFiltered ==
  \E u \in UserIds, k \in KindFilters, s \in DateFilters, e \in DateFilters :
    get_transactions(u, k, s, e)

NextList == AddList \/ ListFiltered

SpecList == InitRegistered /\ [][NextList]_vars

-----------------------------------------------------------------------------
(* Claims on the filtered listing, checked under SpecList *)

\* the day count that orders calendar dates: later dates have larger keys
CalendarKey(s) ==
  CalendarOf(s).year * 10000 + CalendarOf(s).month * 100 + CalendarOf(s).day

\* the transactions of user u that pass the kind filter k and lie in the
\* calendar range of the date filters s and e, an invalid filter not counting
InCalendarRange(u, k, s, e) ==
  {t \in transactions :
     /\ t.user_id = u
     /\ (k \in {"income", "expense"} => t.type = k)
     /\ (IsCalendarDate(s) => CalendarKey(t.date) >= CalendarKey(s))
     /\ (IsCalendarDate(e) => CalendarKey(t.date) <= CalendarKey(e))}

\* C11: a listing returns exactly the user's transactions that pass every
\* supplied valid filter (kind equal to the kind filter, date on or after the
\* start date, date on or before the end date), each once, the newest date
\* first; a date filter that is no valid date restricts nothing.
C11_ListFiltered ==
  last.op = "list" =>
    LET sel == InCalendarRange(last.user_id, last.type, last.start_date,
                               last.end_date)
    IN /\ {last.ret[i] : i \in 1..Len(last.ret)} = {Projected(t) : t \in sel}
       /\ Len(last.ret) = Cardinality(sel)
       /\ \A i \in 1..Len(last.ret) : \A j \in 1..Len(last.ret) :
            i < j => CalendarKey(last.ret[i][5]) >= CalendarKey(last.ret[j][5])

-----------------------------------------------------------------------------
(* Ownership: two users add, update, delete, list, and read the spend and  *)
(* the reports of February 2024                                            *)

\* two expenses, one dated without leading zeros, and an income, all of
\* February 2024
OwnerInputs ==
  {TxInput("expense", "Food", 5, Iso(2024, 2, 1), ""),
   TxInput("expense", "Food", 3, Unpadded(2024, 2, 1), ""),
   TxInput("income", "Salary", 7, Iso(2024, 2, 29), "")}

\* the same expense with another amount and day, and the same income with
\* another amount
OwnerUpdates ==
  {TxInput("expense", "Food", 3, Iso(2024, 2, 29), "x"),
   TxInput("income", "Salary", 5, Iso(2024, 2, 29), "x")}

AddOwned ==
  /\ nextId <= MaxTx
  /\ \E u \in UserIds, i \in OwnerInputs :
       add_transaction(u, i.type, i.category, i.amount, i.date, i.description)

UpdateOwned ==
  \E u \in UserIds, id \in TxIds, i \in OwnerUpdates :
    update_transaction(u, id, i.type, i.category, i.amount, i.date,
                       i.description)

SpentOwned ==
  \E u \in UserIds : get_expenses_for_category_in_month(u, "Food", 2, 2024)

MonthlyOwned == \E u \in UserIds : generate_monthly_report(u, 2, 2024)

YearlyOwned == \E u \in UserIds : generate_yearly_report(u, 2024)

NextOwner ==
  \/ AddOwned
  \/ UpdateOwned
  \/ Delete
  \/ ListAll
  \/ SpentOwned
  \/ MonthlyOwned
  \/ YearlyOwned

SpecOwner == InitRegistered /\ [][NextOwner]_vars

-----------------------------------------------------------------------------
(* Claims on the ownership, checked under SpecOwner *)

\* the stored transactions user u owns and those u does not own
OwnRows(u) == {t \in transactions : t.user_id = u}

ForeignRows(u) == {t \in transactions : t.user_id # u}

\* n is the sum of the amounts of some of the transactions in S
CountsOnly(n, S) == \E R \in SUBSET S : n = Total(R)

\* C12: transactions are exclusively owned.  A call made for a user leaves
\* every transaction of every other user as it was; a listing holds only rows
\* of the caller; an update or a delete with the id of another user's
\* transaction reports failure and changes no transaction; the spend and the
\* report totals are sums over transactions of the caller only.
C12_ExclusivelyOwned ==
  [][last'.op \in {"add", "update", "delete", "list", "spent", "monthly",
                   "yearly"} =>
      LET A == last'.user_id
      IN /\ {t \in transactions' : t.user_id # A} = ForeignRows(A)
         /\ last'.op = "list" =>
              \A i \in 1..Len(last'.ret) : \E t \in OwnRows(A) :
                 last'.ret[i] = Projected(t)
         /\ (last'.op \in {"update", "delete"}
               /\ \E t \in ForeignRows(A) : t.id = last'.id)
              => (last'.ret = FALSE /\ transactions' = transactions)
         /\ last'.op = "spent" =>
              CountsOnly(last'.ret, {t \in OwnRows(A) : t.type = "expense"})
         /\ last'.op = "monthly" =>
              /\ CountsOnly(last'.ret.total_income,
                            {t \in OwnRows(A) : t.type = "income"})
              /\ CountsOnly(last'.ret.total_expense,
                            {t \in OwnRows(A) : t.type = "expense"})
         /\ last'.op = "yearly" =>
              /\ CountsOnly(last'.ret.total_income_year,
                            {t \in OwnRows(A) : t.type = "income"})
              /\ CountsOnly(last'.ret.total_expense_year,
                            {t \in OwnRows(A) : t.type = "expense"})]_vars

\* a user lists a transaction of their own while the other user has one too
C12_Witness ==
  /\ last.op = "list"
  /\ Len(last.ret) = 1
  /\ OwnRows(last.user_id) # {}
  /\ ForeignRows(last.user_id) # {}

-----------------------------------------------------------------------------
(* Updates beside budgets: add, set budget, update *)

\* two expenses, one dated without leading zeros
FrameInputs ==
  {TxInput("expense", "Food", 7, LeapDay, "lunch"),
   TxInput("expense", "Rent", 5, FirstDay, "")}

\* an input update accepts for an expense, and inputs that fail its category,
\* amount or date check alone
FrameUpdates ==
  {TxInput("expense", "Rent", 3, Iso(2024, 12, 31), "flat"),
   TxInput("expense", "Salary", 7, LeapDay, "lunch"),
   TxInput("expense", "Food", 0, LeapDay, "lunch"),
   TxInput("expense", "Food", 7, NoLeapDay, "lunch")}

AddFrame ==
  /\ nextId <= MaxTx
  /\ \E u \in UserIds, i \in FrameInputs :
       add_transaction(u, i.type, i.category, i.amount, i.date, i.description)

SetFrameBudget == \E u \in UserIds : set_budget(u, "Rent", 5, 2, 2024)

UpdateFrame ==
  \E u \in UserIds, id \in TxIds, i \in FrameUpdates :
    update_transaction(u, id, i.type, i.category, i.amount, i.date,
                       i.description)

NextFrame == AddFrame \/ SetFrameBudget \/ UpdateFrame

SpecFrame == InitRegistered /\ [][NextFrame]_vars

-----------------------------------------------------------------------------
(* Claims on the effect of update, checked under SpecFrame *)

\* the row t with the category, amount, date and description of the call c
Rewritten(t, c) ==
  [id |-> t.id, user_id |-> t.user_id, type |-> t.type,
   category |-> c.category, amount |-> c.amount, date |-> c.date,
   description |-> c.description]

\* C13: a successful update replaces the one transaction (user, id) by the
\* same transaction with the supplied category, amount, date and description:
\* its id, owner and kind, every other transaction and all budgets are as
\* before.  An update whose category is not of the kind, whose amount is <= 0
\* or whose date is no valid calendar date fails, and a failed update changes
\* no transaction and no budget.
C13_UpdateFrame ==
  [][last'.op = "update" =>
      /\ budgets' = budgets
      /\ users' = users
      /\ nextId' = nextId
      /\ last'.ret = TRUE =>
           \E t \in StoredAs(last'.user_id, last'.id) :
              transactions' = (transactions \ {t}) \cup {Rewritten(t, last')}
      /\ ~ValidForAdd(last') => last'.ret = FALSE
      /\ last'.ret = FALSE => transactions' = transactions]_vars

\* an update has rewritten one of two stored transactions beside a budget
C13_Witness ==
  /\ last.op = "update"
  /\ last.ret = TRUE
  /\ last.category = "Rent"
  /\ Cardinality(transactions) = 2
  /\ \E t \in transactions : t.id # last.id /\ t.category = "Food"
  /\ \E t \in StoredAs(last.user_id, last.id) : t.date = Iso(2024, 12, 31)
  /\ budgets # {}

-----------------------------------------------------------------------------
(* Claims on the errors, checked under SpecReport *)

\* C14: no call of an operation lets an exception escape: a call with invalid
\* arguments, such as a month outside 1..12, or on a failing store query
\* reports the error as its returned result.
C14_NoEscape == "raised" \in DOMAIN last => last.raised = FALSE

-----------------------------------------------------------------------------
(* DataPersistence *)

\* the content of the store file
StoreFile ==
  [users |-> users, transactions |-> transactions, nextId |-> nextId,
   budgets |-> budgets]

\* shutil.copyfile(self.db_name, backup_file); copy_ok is whether the file
\* system lets the copy through
backup_data(copy_ok) ==
  /\ backups' = IF copy_ok THEN backups \cup {StoreFile} ELSE backups
  /\ last' = [op |-> "backup", ret |-> copy_ok]
  /\ UNCHANGED <<users, transactions, nextId, budgets, conn>>

\* os.path.exists(backup_file), then close, copyfile and _connect inside
\* try ... except Exception: return False
restore_data(backup_file, copy_ok) ==
  LET exists == backup_file \in backups
      copied == exists /\ copy_ok
  IN /\ users' = IF copied THEN backup_file.users ELSE users
     /\ transactions' = IF copied THEN backup_file.transactions
                        ELSE transactions
     /\ nextId' = IF copied THEN backup_file.nextId ELSE nextId
     /\ budgets' = IF copied THEN backup_file.budgets ELSE budgets
     /\ conn' = IF ~exists THEN conn
                ELSE IF copy_ok THEN "open"
                ELSE "closed"
     /\ last' = [op |-> "restore", exists |-> exists, ret |-> copied]
     /\ UNCHANGED backups

-----------------------------------------------------------------------------
(* Backup and restore: add, list, backup, restore *)

\* at most MaxBackups backup files are kept
MaxBackups == 1

\* a backup file name that no file has
NoFile ==
  [users |-> <<>>, transactions |-> {}, nextId |-> 0, budgets |-> {}]

RestoreInputs == {TxInput("expense", "Food", 5, Iso(2024, 2, 1), "")}

AddRestore ==
  /\ nextId <= MaxTx
  /\ \E u \in UserIds, i \in RestoreInputs :
       add_transaction(u, i.type, i.category, i.amount, i.date, i.description)

Backup ==
  /\ Cardinality(backups) < MaxBackups
  /\ \E copy_ok \in BOOLEAN : backup_data(copy_ok)

Restore ==
  \E backup_file \in backups \cup {NoFile}, copy_ok \in BOOLEAN :
    restore_data(backup_file, copy_ok)

NextRestore == AddRestore \/ ListAll \/ Backup \/ Restore

SpecRestore == InitRegistered /\ [][NextRestore]_vars

-----------------------------------------------------------------------------
(* Claims on the connection, checked under SpecRestore *)

\* C16: the connection is open in every state between two calls, at startup
\* and after every restore call that returned, whether it reported success or
\* failure, so that every Ledger, Budget and Report operation runs on an open
\* connection.
C16_ConnectionOpen == conn = "open"

-----------------------------------------------------------------------------
(* Claims on the stored transactions, checked under Spec *)

\* C15: in every reachable state every stored transaction has a kind in
\* {income, expense}, a category of its own kind, an amount > 0 and a date
\* that is a valid calendar date.
C15_StoredValid == \A t \in transactions : ValidForAdd(t)

\* two transactions are stored, one of them rewritten by an update, and the
\* last call was an update refused for its date
C15_Witness ==
  /\ last.op = "update"
  /\ last.ret = FALSE
  /\ last.date = NoLeapDay
  /\ Cardinality(transactions) = 2
  /\ \E t \in transactions : t.category = "Rent" /\ t.description = ""
  /\ \E t \in transactions : t.type = "income"

\* s is YYYY-MM-DD: ten characters, dashes at 5 and 8, digits elsewhere
IsCanonical(s) ==
  /\ Len(s) = 10
  /\ s[5] = Ord("-")
  /\ s[8] = Ord("-")
  /\ \A i \in (1..10) \ {5, 8} : IsDigit(s[i])

\* C17: every stored date is in the canonical zero-padded ten-character form
\* YYYY-MM-DD, and so the order of the date texts of any two stored
\* transactions is the order of their calendar dates.
C17_CanonicalDates ==
  /\ \A t \in transactions : IsCanonical(t.date)
  /\ \A a \in transactions : \A b \in transactions :
       StrGeq(a.date, b.date) <=> CalendarKey(a.date) >= CalendarKey(b.date)

=============================================================================
